---- MODULE Spec2Model ----
(***************************************************************************)
(* Turn-based combat core of mini_game (src/main.py): characters, effects, *)
(* inventory, boss strategy, TurnOrder and the round loop of Battle.run.   *)
(*                                                                         *)
(* Numbers are fixed point: one unit is 0.1 of a game point, so hp 150.0   *)
(* is 1500, Boss.smash (26 * 2.2 = 57.2) is 572 and the fireball DOT       *)
(* (66 * 0.25 = 16.5) is 165.  Every quantity the battle computes is a     *)
(* multiple of 0.1, and hp / max_hp > 0.66 agrees with the integer         *)
(* comparison hp * 100 > 66 * max_hp on every multiple of 0.1.             *)
(***************************************************************************)
EXTENDS Integers, Sequences, FiniteSets, TLC

VARIABLES
    chars,           \* character id -> [hp, mp, shield, effects, cooldowns]
    party,           \* Battle.party, the list of heroes handed to Battle
    max_rounds,      \* the max_rounds handed to Battle.run
    inv,             \* character id -> Inventory.items (item name -> count)
    round,           \* Battle.round
    pc,              \* position of Battle.run
    order,           \* TurnOrder._order, the deque of the running round
    actor,           \* the actor of the running turn
    boss_hp_before,  \* local boss_hp_before of Battle.run
    ret,             \* return value of Battle.run
    turns,           \* actors that passed line 600 in the running round
    log,             \* RoundLogger.entries of Battle.logger
    dumped,          \* the document RoundLogger.dump wrote, if it wrote one
    calls,           \* number of direct method calls made (SpecApi)
    last             \* the last direct method call and its return value

vars == <<chars, party, max_rounds, inv, round, pc, order, actor, boss_hp_before, ret, turns, log,
         dumped, calls, last>>

-----------------------------------------------------------------------------
(* Bounds of the model *)

\* regular hero turns of a battle: len(party) * max_rounds stays within it
MaxTurns == 4

\* number of direct method calls made in SpecApi
MaxCalls == 3

\* the most pieces of one item an inventory is given
MaxCount == 2

-----------------------------------------------------------------------------
(* Helpers *)

Min(a, b) == IF a < b THEN a ELSE b

Max(a, b) == IF a > b THEN a ELSE b

Range(s) == {s[i] : i \in DOMAIN s}

-----------------------------------------------------------------------------
(* Characters: Warrior, Mage, Healer, Boss *)

\* make_sample_party: [w, m, h]
sample_party == <<"Warrior", "Mage", "Healer">>

Heroes == Range(sample_party)

Chars == Heroes \cup {"Boss"}

\* Battle.combatants = party + [boss]
combatants(p) == p \o <<"Boss">>

max_hp == [Warrior |-> 1500, Mage |-> 900, Healer |-> 1100, Boss |-> 6000]

max_mp == [Warrior |-> 300, Mage |-> 1400, Healer |-> 1300, Boss |-> 800]

strength == [Warrior |-> 200, Mage |-> 60, Healer |-> 60, Boss |-> 260]

agility == [Warrior |-> 120, Mage |-> 100, Healer |-> 100, Boss |-> 80]

intelligence == [Warrior |-> 60, Mage |-> 220, Healer |-> 200, Boss |-> 140]

\* CritMixin.crit_multiplier = 1.5, in percent
crit_multiplier == 150

\* skill name of each hero class, its mana cost and its cooldown
skill == [Warrior |-> "power_strike", Mage |-> "fireball", Healer |-> "mass_heal"]

cost == [power_strike |-> 80, fireball |-> 200, mass_heal |-> 250]

cd == [power_strike |-> 2, fireball |-> 3, mass_heal |-> 3]

\* Character.__init__ and the subclasses' __init__: the state of a new character
NewCharacter(c) ==
    [hp |-> max_hp[c], mp |-> max_mp[c], shield |-> 0, effects |-> <<>>,
     cooldowns |-> IF c = "Boss" THEN <<>> ELSE (skill[c] :> 0)]

\* BoundedStat.__set__: hp and mp are declared with min_value = 0 and no max_value
BoundedStat_set(v) == Max(0, v)

is_alive(cs, c) == cs[c].hp > 0

\* a silence check that only looks at the first effect
is_silenced_first(cs, c) == cs[c].effects # <<>> /\ cs[c].effects[1].kind = "Silence"

is_silenced(cs, c) == \E i \in DOMAIN cs[c].effects : cs[c].effects[i].kind = "Silence"

\* any(h.is_alive for h in self.party)
any_alive(cs, p) == \E i \in DOMAIN p : is_alive(cs, p[i])

-----------------------------------------------------------------------------
(* Character.take_damage / heal / restore_mp / spend_mp *)

\* take_damage that lets the shield absorb without reducing the incoming amount
take_damage_unreduced(cs, t, amount) ==
    LET c        == cs[t]
        absorbed == IF c.shield > 0 THEN Min(c.shield, amount) ELSE 0
    IN  [cs EXCEPT ![t] = [c EXCEPT
            !.shield = c.shield - absorbed,
            !.hp = IF amount <= 0 THEN c.hp ELSE BoundedStat_set(Max(0, c.hp - amount))]]

take_damage(cs, t, amount) ==
    LET c        == cs[t]
        absorbed == IF c.shield > 0 THEN Min(c.shield, amount) ELSE 0
        rest     == amount - absorbed
    IN  [cs EXCEPT ![t] = [c EXCEPT
            !.shield = c.shield - absorbed,
            !.hp = IF rest <= 0 THEN c.hp ELSE BoundedStat_set(Max(0, c.hp - rest))]]

\* heal without the cap at max_hp
heal_uncapped(cs, t, amount) ==
    [cs EXCEPT ![t].hp = BoundedStat_set(cs[t].hp + amount)]

heal(cs, t, amount) ==
    [cs EXCEPT ![t].hp = BoundedStat_set(Min(max_hp[t], cs[t].hp + amount))]

restore_mp(cs, t, amount) ==
    [cs EXCEPT ![t].mp = BoundedStat_set(Min(max_mp[t], cs[t].mp + amount))]

\* spend_mp that spends what is there when the mana is short
spend_mp_partial(cs, t, amount) ==
    IF cs[t].mp >= amount
    THEN [ok |-> TRUE, cs |-> [cs EXCEPT ![t].mp = BoundedStat_set(cs[t].mp - amount)]]
    ELSE [ok |-> FALSE, cs |-> [cs EXCEPT ![t].mp = BoundedStat_set(cs[t].mp - amount)]]

\* returns [ok, cs]
spend_mp(cs, t, amount) ==
    IF cs[t].mp >= amount
    THEN [ok |-> TRUE, cs |-> [cs EXCEPT ![t].mp = BoundedStat_set(cs[t].mp - amount)]]
    ELSE [ok |-> FALSE, cs |-> cs]

-----------------------------------------------------------------------------
(* Effects *)

ShieldEffect(amount, duration) == [kind |-> "Shield", amount |-> amount, duration |-> duration]

DotEffect(damage, duration) == [kind |-> "Dot", amount |-> damage, duration |-> duration]

SilenceEffect(duration) == [kind |-> "Silence", amount |-> 0, duration |-> duration]

RegenEffect(amount, duration) == [kind |-> "Regen", amount |-> amount, duration |-> duration]

\* Effect.apply of each subclass
Effect_apply(cs, t, e) ==
    IF e.kind = "Shield" THEN [cs EXCEPT ![t].shield = cs[t].shield + e.amount] ELSE cs

\* mutant: the expiry of a shield leaves the buffer as it is
Effect_expire_keeps(cs, t, e) == cs

\* Effect.expire of each subclass
Effect_expire(cs, t, e) ==
    IF e.kind = "Shield" THEN [cs EXCEPT ![t].shield = Max(0, cs[t].shield - e.amount)] ELSE cs

\* Effect.on_turn of each subclass, on the i-th effect of t: payload, then duration -= 1
Effect_on_turn(cs, t, i) ==
    LET e  == cs[t].effects[i]
        c1 == IF e.kind = "Dot" /\ is_alive(cs, t) THEN take_damage(cs, t, e.amount)
              ELSE IF e.kind = "Regen" /\ is_alive(cs, t) THEN heal(cs, t, e.amount)
              ELSE cs
    IN  [c1 EXCEPT ![t].effects[i].duration = e.duration - 1]

apply_effect(cs, t, e) ==
    LET c1 == Effect_apply(cs, t, e)
    IN  [c1 EXCEPT ![t].effects = Append(c1[t].effects, e)]

RECURSIVE expire_from(_, _, _, _)
\* the loop of remove_expired_effects over the list es (the list before the call), from i
expire_from(cs, t, es, i) ==
    IF i > Len(es) THEN cs
    ELSE expire_from(IF es[i].duration <= 0 THEN Effect_expire(cs, t, es[i]) ELSE cs, t, es, i + 1)

\* mutant: an effect whose duration reached 0 stays for one more turn
StillActive_lenient(e) == e.duration >= 0

\* the test of the else branch of remove_expired_effects
StillActive(e) == e.duration > 0

remove_expired_effects(cs, t) ==
    LET es == cs[t].effects
        c1 == expire_from(cs, t, es, 1)
    IN  [c1 EXCEPT ![t].effects = SelectSeq(es, StillActive)]

RECURSIVE on_turn_from(_, _, _)
\* the loop of start_turn_effects, in attachment order
on_turn_from(cs, t, i) ==
    IF i > Len(cs[t].effects) THEN cs
    ELSE on_turn_from(Effect_on_turn(cs, t, i), t, i + 1)

\* mutant: the effects tick and none is expired or removed
start_turn_effects_no_expiry(cs, t) == on_turn_from(cs, t, 1)

\* Character.start_turn_effects
start_turn_effects(cs, t) == remove_expired_effects(on_turn_from(cs, t, 1), t)

-----------------------------------------------------------------------------
(* Attacks and signature skills.  The random draws (roll_crit, the jitter  *)
(* random.uniform(0.9, 1.1) in percent) are parameters.                    *)

\* sample points of random.uniform(0.9, 1.1), in percent
Jitters == {90, 110}

basic_attack(cs, self, target, crit, jitter) ==
    LET base   == IF crit THEN (strength[self] * crit_multiplier) \div 100 ELSE strength[self]
        damage == (jitter * base) \div 100
    IN  take_damage(cs, target, damage)

\* the guards without the cooldown test
skill_entry_no_cooldown(cs, self, name) ==
    IF is_silenced(cs, self) THEN [ok |-> FALSE, cs |-> cs]
    ELSE LET paid == spend_mp(cs, self, cost[name])
         IN  IF ~paid.ok THEN [ok |-> FALSE, cs |-> cs]
             ELSE [ok |-> TRUE,
                   cs |-> [paid.cs EXCEPT ![self].cooldowns =
                              (name :> cd[name]) @@ paid.cs[self].cooldowns]]

\* the three guards shared by power_strike, fireball and mass_heal:
\* silence, cooldown, mana; returns [ok, cs] with the cost paid and the cooldown set
skill_entry(cs, self, name) ==
    IF is_silenced(cs, self) THEN [ok |-> FALSE, cs |-> cs]
    ELSE IF (IF name \in DOMAIN cs[self].cooldowns THEN cs[self].cooldowns[name] ELSE 0) > 0
         THEN [ok |-> FALSE, cs |-> cs]
    ELSE LET paid == spend_mp(cs, self, cost[name])
         IN  IF ~paid.ok THEN [ok |-> FALSE, cs |-> cs]
             ELSE [ok |-> TRUE,
                   cs |-> [paid.cs EXCEPT ![self].cooldowns =
                              (name :> cd[name]) @@ paid.cs[self].cooldowns]]

\* Warrior.power_strike, returns [ok, cs]
power_strike(cs, self, target, crit) ==
    LET e      == skill_entry(cs, self, "power_strike")
        base   == strength[self] * 2
        damage == IF crit THEN (base * crit_multiplier) \div 100 ELSE base
    IN  IF ~e.ok THEN e ELSE [ok |-> TRUE, cs |-> take_damage(e.cs, target, damage)]

\* fireball whose DOT lasts 3 rounds
fireball_long_dot(cs, self, target) ==
    LET e      == skill_entry(cs, self, "fireball")
        damage == intelligence[self] * 3
        dot    == DotEffect((damage * 25) \div 100, 3)
    IN  IF ~e.ok THEN e
        ELSE [ok |-> TRUE, cs |-> apply_effect(take_damage(e.cs, target, damage), target, dot)]

\* Mage.fireball, returns [ok, cs]
fireball(cs, self, target) ==
    LET e      == skill_entry(cs, self, "fireball")
        damage == intelligence[self] * 3
        dot    == DotEffect((damage * 25) \div 100, 2)
    IN  IF ~e.ok THEN e
        ELSE [ok |-> TRUE, cs |-> apply_effect(take_damage(e.cs, target, damage), target, dot)]

RECURSIVE heal_allies_dead_too(_, _, _, _)
\* mutant: the loop heals the dead allies as well
heal_allies_dead_too(cs, allies, amount, i) ==
    IF i > Len(allies) THEN cs
    ELSE heal_allies_dead_too(heal(cs, allies[i], amount), allies, amount, i + 1)

RECURSIVE heal_allies(_, _, _, _)
\* the loop of mass_heal over allies, from i
heal_allies(cs, allies, amount, i) ==
    IF i > Len(allies) THEN cs
    ELSE heal_allies(IF is_alive(cs, allies[i]) THEN heal(cs, allies[i], amount) ELSE cs,
                     allies, amount, i + 1)

\* Healer.mass_heal, returns [ok, cs]
mass_heal(cs, self, allies) ==
    LET e      == skill_entry(cs, self, "mass_heal")
        amount == intelligence[self] * 2
    IN  IF ~e.ok THEN e ELSE [ok |-> TRUE, cs |-> heal_allies(e.cs, allies, amount, 1)]

\* Warrior.use_skill; target "None" is Python's None
Warrior_use_skill(cs, self, target, crit, jitter) ==
    IF target = "None" THEN cs
    ELSE LET used == power_strike(cs, self, target, crit)
         IN  IF used.ok THEN used.cs ELSE basic_attack(cs, self, target, crit, jitter)

\* Mage.use_skill
Mage_use_skill(cs, self, target, crit, jitter) ==
    IF target = "None" THEN cs
    ELSE LET used == fireball(cs, self, target)
         IN  IF used.ok THEN used.cs ELSE basic_attack(cs, self, target, crit, jitter)

\* mutant: the healer strikes the target whether or not the heal went through
Healer_use_skill_strikes(cs, self, target, allies, crit, jitter) ==
    LET used == mass_heal(cs, self, allies)
    IN  IF target # "None" /\ is_alive(used.cs, target)
        THEN basic_attack(used.cs, self, target, crit, jitter)
        ELSE used.cs

\* Healer.use_skill
Healer_use_skill(cs, self, target, allies, crit, jitter) ==
    LET used == mass_heal(cs, self, allies)
    IN  IF used.ok THEN used.cs
        ELSE IF target # "None" /\ is_alive(cs, target)
             THEN basic_attack(cs, self, target, crit, jitter)
             ELSE cs

\* the polymorphic call hero.use_skill(target=..., allies=...)
use_skill(cs, self, target, allies, crit, jitter) ==
    CASE self = "Warrior" -> Warrior_use_skill(cs, self, target, crit, jitter)
      [] self = "Mage"    -> Mage_use_skill(cs, self, target, crit, jitter)
      [] self = "Healer"  -> Healer_use_skill(cs, self, target, allies, crit, jitter)

-----------------------------------------------------------------------------
(* Boss: phase, strategies, smash, shield_self, cast_silence, use_skill *)

\* phase with >= in place of >
phase_inclusive(cs) ==
    IF cs["Boss"].hp * 100 >= 66 * max_hp["Boss"] THEN 1
    ELSE IF cs["Boss"].hp * 100 >= 33 * max_hp["Boss"] THEN 2
    ELSE 3

\* Boss.phase: ratio = hp / max_hp against phase_thresholds [0.66, 0.33]
phase(cs) ==
    IF cs["Boss"].hp * 100 > 66 * max_hp["Boss"] THEN 1
    ELSE IF cs["Boss"].hp * 100 > 33 * max_hp["Boss"] THEN 2
    ELSE 3

\* [e for e in enemies if e.is_alive]
living_of(cs, enemies) == SelectSeq(enemies, LAMBDA e : is_alive(cs, e))

\* the first element of the list, whatever its hp
min_hp_first(cs, living) == living[1]

\* min(living, key=hp): the first element of least hp
min_hp(cs, living) ==
    living[CHOOSE i \in DOMAIN living :
              /\ \A j \in DOMAIN living : cs[living[i]].hp <= cs[living[j]].hp
              /\ \A j \in 1..(i - 1) : cs[living[j]].hp > cs[living[i]].hp]

\* max(living, key=strength): the first element of greatest strength
max_strength(living) ==
    living[CHOOSE i \in DOMAIN living :
              /\ \A j \in DOMAIN living : strength[living[i]] >= strength[living[j]]
              /\ \A j \in 1..(i - 1) : strength[living[j]] < strength[living[i]]]

\* AggressiveStrategy.choose_action, returns [target, action]
Aggressive_choose_action(cs, enemies) ==
    LET living == living_of(cs, enemies)
    IN  IF living = <<>> THEN [target |-> "None", action |-> "wait"]
        ELSE [target |-> min_hp(cs, living), action |-> "smash"]

\* DefensiveStrategy.choose_action: boss.shield < boss.max_hp * 0.15
Defensive_choose_action(cs, enemies) ==
    LET living == living_of(cs, enemies)
    IN  IF cs["Boss"].shield * 100 < max_hp["Boss"] * 15
        THEN [target |-> "Boss", action |-> "shield"]
        ELSE IF living = <<>> THEN [target |-> "None", action |-> "wait"]
        ELSE [target |-> max_strength(living), action |-> "smash"]

\* Boss.choose_strategy followed by strategy.choose_action
choose_action(cs, enemies) ==
    IF phase(cs) = 2 THEN Defensive_choose_action(cs, enemies)
    ELSE Aggressive_choose_action(cs, enemies)

\* Boss.smash: damage = strength * 2.2
smash(cs, target) == take_damage(cs, target, (strength["Boss"] * 22) \div 10)

\* Boss.shield_self: ShieldEffect(amount = intelligence * 3.5, duration = 2)
shield_self(cs) == apply_effect(cs, "Boss", ShieldEffect((intelligence["Boss"] * 35) \div 10, 2))

\* mutant: the silence lasts two turns of its target
cast_silence_long(cs, target) == apply_effect(cs, target, SilenceEffect(2))

\* Boss.cast_silence
cast_silence(cs, target) == apply_effect(cs, target, SilenceEffect(1))

\* Boss.use_skill(target=enemies): the primary action, then in phase 3 the
\* silence cast; coin is random.random() < 0.5 and pick the random.choice
\* among the living enemies
Boss_use_skill(cs, enemies, coin, pick) ==
    LET chosen == choose_action(cs, enemies)
        c1     == IF chosen.action = "smash" /\ chosen.target # "None"
                  THEN smash(cs, chosen.target)
                  ELSE IF chosen.action = "shield" THEN shield_self(cs)
                  ELSE cs
    IN  IF phase(c1) = 3 /\ enemies # <<>> /\ coin /\ is_alive(c1, pick)
        THEN cast_silence(c1, pick)
        ELSE c1

-----------------------------------------------------------------------------
(* Item and Inventory *)

\* the two items of make_sample_party
Items == [potion      |-> [hp_restore |-> 500, mp_restore |-> 0],
          mana_potion |-> [hp_restore |-> 0, mp_restore |-> 400]]

\* Item.use
Item_use(cs, name, target) ==
    LET c1 == IF Items[name].hp_restore # 0 THEN heal(cs, target, Items[name].hp_restore) ELSE cs
    IN  IF Items[name].mp_restore # 0 THEN restore_mp(c1, target, Items[name].mp_restore) ELSE c1

\* Inventory.add
Inventory_add(items, name, count) ==
    IF name \in DOMAIN items THEN [items EXCEPT ![name] = items[name] + count]
    ELSE (name :> count) @@ items

\* Inventory.has
Inventory_has(items, name) == name \in DOMAIN items /\ items[name] > 0

\* mutant: the count 0 is written back and the entry stays
remove_by_name_keeps(items, name, count) ==
    IF name \notin DOMAIN items THEN [ok |-> FALSE, items |-> items]
    ELSE IF items[name] < count THEN [ok |-> FALSE, items |-> items]
    ELSE [ok |-> TRUE, items |-> [items EXCEPT ![name] = items[name] - count]]

\* Inventory.remove_by_name, returns [ok, items]
remove_by_name(items, name, count) ==
    IF name \notin DOMAIN items THEN [ok |-> FALSE, items |-> items]
    ELSE IF items[name] < count THEN [ok |-> FALSE, items |-> items]
    ELSE IF items[name] = count
         THEN [ok |-> TRUE, items |-> [n \in DOMAIN items \ {name} |-> items[n]]]
         ELSE [ok |-> TRUE, items |-> [items EXCEPT ![name] = items[name] - count]]

\* Inventory.use, returns [ok, cs, items]
Inventory_use(cs, items, name, target) ==
    IF ~Inventory_has(items, name) THEN [ok |-> FALSE, cs |-> cs, items |-> items]
    ELSE [ok |-> TRUE, cs |-> Item_use(cs, name, target),
          items |-> remove_by_name(items, name, 1).items]

\* the inventories make_sample_party hands out; the boss has none
SampleInventory ==
    [c \in Chars |->
        CASE c = "Warrior" -> ("potion" :> 1)
          [] c = "Mage"    -> ("potion" :> 1)
          [] c = "Healer"  -> ("mana_potion" :> 1)
          [] OTHER         -> <<>>]

-----------------------------------------------------------------------------
(* TurnOrder *)

RECURSIVE insert_desc(_, _)
\* place x behind every element whose agility is >= its own: one step of the
\* stable sort(key=agility, reverse=True)
insert_desc(sorted, x) ==
    IF sorted = <<>> THEN <<x>>
    ELSE IF agility[Head(sorted)] >= agility[x]
         THEN <<Head(sorted)>> \o insert_desc(Tail(sorted), x)
         ELSE <<x>> \o sorted

RECURSIVE sort_desc(_, _)
sort_desc(s, i) == IF i = 0 THEN <<>> ELSE insert_desc(sort_desc(s, i - 1), s[i])

\* the outcomes of random.shuffle(living)
Shuffles(living) ==
    {s \in [1..Len(living) -> Range(living)] : \A i, j \in 1..Len(living) : i # j => s[i] # s[j]}

\* TurnOrder.prepare_round with the shuffle's outcome given: the new _order
prepare_round(cs, shuffled) == sort_desc(shuffled, Len(shuffled))

\* an iterator that yields the head of the deque, alive or not
drop_dead_never(cs, dq) == dq

RECURSIVE drop_dead(_, _)
\* TurnOrder.__next__: popleft until a living combatant is met; the deque from it on
drop_dead(cs, dq) ==
    IF dq = <<>> THEN <<>>
    ELSE IF is_alive(cs, Head(dq)) THEN dq ELSE drop_dead(cs, Tail(dq))

-----------------------------------------------------------------------------
(* Battle.run *)

\* mutant: only the living combatants' counters are ticked
tick_cooldowns_living(cs, cmb) ==
    [c \in Chars |->
        IF c \notin Range(cmb) \/ ~is_alive(cs, c) THEN cs[c]
        ELSE [cs[c] EXCEPT !.cooldowns =
                [k \in DOMAIN cs[c].cooldowns |-> Max(0, cs[c].cooldowns[k] - 1)]]]

\* Battle.tick_cooldowns
tick_cooldowns(cs, cmb) ==
    [c \in Chars |->
        IF c \notin Range(cmb) THEN cs[c]
        ELSE [cs[c] EXCEPT !.cooldowns =
                [k \in DOMAIN cs[c].cooldowns |->
                    IF cs[c].cooldowns[k] > 0 THEN cs[c].cooldowns[k] - 1
                    ELSE cs[c].cooldowns[k]]]]

\* a retaliation that does not ask whether the boss lost hp
retaliates_always(cs, p, before) == is_alive(cs, "Boss") /\ any_alive(cs, p)

\* the guard of the retaliation, lines 620-621
retaliates(cs, p, before) ==
    before > cs["Boss"].hp /\ is_alive(cs, "Boss") /\ any_alive(cs, p)

\* the hp a battle may be started with: full, or set by the caller before run
StartHp == [Warrior |-> {1500, 572}, Mage |-> {900, 500}, Healer |-> {1100, 600},
            Boss |-> {6000, 3960, 2400, 1980, 825}]

\* the parties a battle is run with: the sample party and its sublists
Parties ==
    {<<"Warrior">>, <<"Mage">>, <<"Healer">>, <<"Warrior", "Mage">>,
     <<"Warrior", "Healer">>, <<"Mage", "Healer">>, sample_party}

\* the characters handed to Battle: new, hp possibly set (the heroes all fresh
\* or all wounded); those outside the party are new
StartChars(p) ==
    {[c \in Chars |-> [NewCharacter(c) EXCEPT !.hp = h[c]]] :
        h \in {f \in [Chars -> UNION {StartHp[c] : c \in Chars}] :
                 /\ \A c \in Chars : IF c \in Range(p) \cup {"Boss"} THEN f[c] \in StartHp[c]
                                     ELSE f[c] = max_hp[c]
                 /\ \/ \A c \in Range(p) : f[c] = max_hp[c]
                    \/ \A c \in Range(p) : f[c] # max_hp[c]}}

\* the records of the round log: the kind of the message, the round it names
\* and the name or phase it names
Message(kind, n, who) == [kind |-> kind, n |-> n, who |-> who]

\* RoundLogger.record, and Battle.broadcast, which records what it prints
record(entries, message) == Append(entries, message)

\* RoundLogger.dump: the entries as they are when it is called
dump(entries) == [written |-> TRUE, doc |-> entries]

\* no document written yet
NotDumped == [written |-> FALSE, doc |-> <<>>]

NoCall ==
    [op |-> "none", self |-> "None", target |-> "None", amount |-> 0, ok |-> FALSE,
     name |-> "None"]

\* Battle.__init__(party, boss) and the call run(max_rounds)
Init ==
    /\ party \in Parties
    /\ max_rounds = MaxTurns \div Len(party)
    /\ chars \in StartChars(party)
    /\ inv = SampleInventory
    /\ round = 1
    /\ pc = "start"
    /\ order = <<>>
    /\ actor = "None"
    /\ boss_hp_before = 0
    /\ ret = "None"
    /\ turns = <<>>
    /\ log = <<>>
    /\ dumped = NotDumped
    /\ calls = 0
    /\ last = NoCall

\* the while condition of run
\* mutant: the loop does not look at the round counter
running_unbounded(cs, p, r, mr) == is_alive(cs, "Boss") /\ any_alive(cs, p)

\* the while condition of line 594
running(cs, p, r, mr) == r <= mr /\ is_alive(cs, "Boss") /\ any_alive(cs, p)

\* line 593: broadcast of the opening message
RunStart ==
    /\ pc = "start"
    /\ log' = record(log, Message("begin", 0, "None"))
    /\ pc' = "loop"
    /\ UNCHANGED <<chars, party, max_rounds, inv, round, order, actor, boss_hp_before, ret,
                   turns, dumped, calls, last>>

\* the while condition holds: log_round is entered, the round is announced
\* with the boss's phase and TurnOrder(self.combatants) is built
RoundStart ==
    /\ pc = "loop"
    /\ running(chars, party, round, max_rounds)
    /\ \E shuffled \in Shuffles(living_of(chars, combatants(party))) :
           order' = prepare_round(chars, shuffled)
    /\ turns' = <<>>
    /\ log' = record(record(log, Message("round_start", round, "None")),
                     Message("round", round, phase(chars)))
    /\ pc' = "next"
    /\ UNCHANGED <<chars, party, max_rounds, inv, round, actor, boss_hp_before, ret, dumped,
                   calls, last>>

\* mutant: the party wins whenever a hero is still standing
victory_by_party(cs, p) ==
    IF any_alive(cs, p) THEN [ret |-> "True", kind |-> "party_wins"]
    ELSE [ret |-> "False", kind |-> "boss_wins"]

\* lines 634-641: the winner run announces and the value it returns
victory(cs, p) ==
    IF is_alive(cs, "Boss") THEN [ret |-> "False", kind |-> "boss_wins"]
    ELSE [ret |-> "True", kind |-> "party_wins"]

\* the while condition fails: the victory record, the dump and the return value
Finish ==
    /\ pc = "loop"
    /\ ~running(chars, party, round, max_rounds)
    /\ ret' = victory(chars, party).ret
    /\ log' = record(log, Message(victory(chars, party).kind, 0, "None"))
    /\ dumped' = dump(log')
    /\ pc' = "done"
    /\ UNCHANGED <<chars, party, max_rounds, inv, round, order, actor, boss_hp_before, turns,
                   calls, last>>

\* mutant: an actor killed by its own start-of-turn effects still acts
after_effects_unchecked(cs, c) == IF c = "Boss" THEN "boss" ELSE "menu"

\* lines 601-604: an actor its start-of-turn effects killed is skipped, the
\* boss takes the boss's turn and a hero gets the menu
after_effects(cs, c) ==
    IF ~is_alive(cs, c) THEN "next"
    ELSE IF c = "Boss" THEN "boss" ELSE "menu"

\* `for actor in order`: the next living combatant, its start_turn_effects,
\* and the dispatch on the actor (lines 598-612)
NextActor ==
    /\ pc = "next"
    /\ drop_dead(chars, order) # <<>>
    /\ LET c  == Head(drop_dead(chars, order))
           c1 == start_turn_effects(chars, c)
       IN  /\ actor' = c
           /\ order' = Tail(drop_dead(chars, order))
           /\ turns' = Append(turns, c)
           /\ chars' = c1
           /\ pc' = after_effects(c1, c)
           /\ boss_hp_before' = IF is_alive(c1, c) /\ c # "Boss" THEN c1["Boss"].hp
                                ELSE boss_hp_before
    /\ UNCHANGED <<party, max_rounds, inv, round, ret, log, dumped, calls, last>>

\* the iterator is exhausted: the for loop ends
OrderExhausted ==
    /\ pc = "next"
    /\ drop_dead(chars, order) = <<>>
    /\ order' = <<>>
    /\ pc' = "round_end"
    /\ UNCHANGED <<chars, party, max_rounds, inv, round, actor, boss_hp_before, ret, turns,
                   log, dumped, calls, last>>

\* the boss's turn: use_skill(target=self.party), then the party-wiped break
BossTurn ==
    /\ pc = "boss"
    /\ \E coin \in BOOLEAN, pick \in Range(party) :
           chars' = Boss_use_skill(chars, party, coin, pick)
    /\ pc' = IF ~any_alive(chars', party) THEN "round_end" ELSE "next"
    /\ UNCHANGED <<party, max_rounds, inv, round, order, actor, boss_hp_before, ret, turns,
                   log, dumped, calls, last>>

\* _hero_menu_action, choice "0": exit, confirmed with "yes" or not.  Confirmed
\* (lines 615-618): the exit is broadcast, the log is dumped and run returns
\* False from inside `with log_round`, whose finally records the round's end
MenuExit ==
    /\ pc = "menu"
    /\ \E confirm \in {"yes", "no"} :
           IF confirm = "yes"
           THEN /\ pc' = "done"
                /\ ret' = "False"
                /\ dumped' = dump(record(log, Message("exit", 0, "None")))
                /\ log' = record(record(log, Message("exit", 0, "None")),
                                 Message("round_end", round, "None"))
           ELSE /\ pc' = "retaliate"
                /\ UNCHANGED <<ret, log, dumped>>
    /\ UNCHANGED <<chars, party, max_rounds, inv, round, order, actor, boss_hp_before, turns,
                   calls, last>>

\* choice "1", and any unknown choice: basic_attack on the boss
MenuAttack ==
    /\ pc = "menu"
    /\ \E crit \in BOOLEAN, jitter \in Jitters :
           chars' = basic_attack(chars, actor, "Boss", crit, jitter)
    /\ pc' = "retaliate"
    /\ UNCHANGED <<party, max_rounds, inv, round, order, actor, boss_hp_before, ret, turns,
                   log, dumped, calls, last>>

\* choice "2": use_skill(target=self.boss, allies=self.party)
MenuSkill ==
    /\ pc = "menu"
    /\ \E crit \in BOOLEAN, jitter \in Jitters :
           chars' = use_skill(chars, actor, "Boss", party, crit, jitter)
    /\ pc' = "retaliate"
    /\ UNCHANGED <<party, max_rounds, inv, round, order, actor, boss_hp_before, ret, turns,
                   log, dumped, calls, last>>

\* choice "3": _choose_item_from_hero gives an item of the hero or None
MenuItem ==
    /\ pc = "menu"
    /\ \E item_name \in DOMAIN inv[actor] \cup {"None"} :
           IF item_name # "None"
           THEN LET used == Inventory_use(chars, inv[actor], item_name, actor)
                IN  chars' = used.cs /\ inv' = [inv EXCEPT ![actor] = used.items]
           ELSE UNCHANGED <<chars, inv>>
    /\ pc' = "retaliate"
    /\ UNCHANGED <<party, max_rounds, round, order, actor, boss_hp_before, ret, turns,
                   log, dumped, calls, last>>

\* lines 620-629: the retaliation and the breaks that follow a hero's action
Retaliate ==
    /\ pc = "retaliate"
    /\ IF retaliates(chars, party, boss_hp_before)
       THEN \E target \in {h \in Range(party) : is_alive(chars, h)} :
                /\ log' = record(log, Message("retaliation", 0, target))
                /\ chars' = smash(chars, target)
       ELSE chars' = chars /\ log' = log
    /\ pc' = IF ~any_alive(chars', party) \/ ~is_alive(chars', "Boss") THEN "round_end"
             ELSE "next"
    /\ UNCHANGED <<party, max_rounds, inv, round, order, actor, boss_hp_before, ret, turns,
                   dumped, calls, last>>

\* lines 631-632: tick_cooldowns, then round += 1
RoundEnd ==
    /\ pc = "round_end"
    /\ chars' = tick_cooldowns(chars, combatants(party))
    /\ log' = record(log, Message("round_end", round, "None"))
    /\ round' = round + 1
    /\ pc' = "loop"
    /\ UNCHANGED <<party, max_rounds, inv, order, actor, boss_hp_before, ret, turns,
                   dumped, calls, last>>

Next ==
    \/ RunStart
    \/ RoundStart
    \/ Finish
    \/ NextActor
    \/ OrderExhausted
    \/ BossTurn
    \/ MenuExit
    \/ MenuAttack
    \/ MenuSkill
    \/ MenuItem
    \/ Retaliate
    \/ RoundEnd

Spec == Init /\ [][Next]_vars

\* run is one thread that executes its next statement as long as it has one,
\* every query to the player being answered; the battles of one hero
\* against the boss, which run the most rounds
InitFair == Init /\ Len(party) = 1

SpecFair == InitFair /\ [][Next]_vars /\ WF_vars(Next)

-----------------------------------------------------------------------------
(* The methods called directly, as the tests call them: SpecApi.  A run is *)
(* a sequence of at most MaxCalls calls on the sample party and a boss.    *)

\* hp and mp the caller sets before the calls (test_game.py sets hp = 0, 10, -50, 0.4 * max_hp)
ApiStartHp == [Warrior |-> {1500}, Mage |-> {900}, Healer |-> {1100},
               Boss |-> {6000, 3960, 2400, 1980}]

ApiStartMp == [Warrior |-> {300, 100}, Mage |-> {1400, 150}, Healer |-> {1300, 200},
               Boss |-> {800}]

ApiStartChars ==
    {[c \in Chars |-> [NewCharacter(c) EXCEPT !.hp = h[c], !.mp = m[c]]] :
        h \in {f \in [Chars -> UNION {ApiStartHp[c] : c \in Chars}] :
                 \A c \in Chars : f[c] \in ApiStartHp[c]},
        m \in {f \in [Chars -> UNION {ApiStartMp[c] : c \in Chars}] :
                 (\A c \in Chars : f[c] \in ApiStartMp[c])
                 /\ (\A c, d \in Heroes : (f[c] = max_mp[c]) = (f[d] = max_mp[d]))}}

\* amounts handed to take_damage, heal, restore_mp and spend_mp
DamageAmounts == {200, 490, 572}

HealAmounts == {400}

MpAmounts == {200, 1300}

\* the characters the generic calls are made on; every hero is reached by its
\* own skill, by mass_heal, by Boss.use_skill and by a SilenceEffect
ApiTargets == {"Mage", "Boss"}

\* effects handed to apply_effect
EffectPalette ==
    {ShieldEffect(490, 2), ShieldEffect(1000, 1), DotEffect(165, 2), RegenEffect(100, 1)}

InitApi ==
    /\ party = sample_party
    /\ max_rounds = 0
    /\ chars \in ApiStartChars
    /\ inv = SampleInventory
    /\ round = 1
    /\ pc = "api"
    /\ order = <<>>
    /\ actor = "None"
    /\ boss_hp_before = 0
    /\ ret = "None"
    /\ turns = <<>>
    /\ log = <<>>
    /\ dumped = NotDumped
    /\ calls = 0
    /\ last = NoCall

\* one direct call: its result state and the record of the call
Called(op, self, target, amount, ok, cs) ==
    /\ pc = "api"
    /\ calls < MaxCalls
    /\ calls' = calls + 1
    /\ chars' = cs
    /\ last' = [op |-> op, self |-> self, target |-> target, amount |-> amount, ok |-> ok,
                name |-> "None"]
    /\ UNCHANGED <<party, max_rounds, inv, round, pc, order, actor, boss_hp_before, ret, turns,
                   log, dumped>>

ApiTakeDamage ==
    \E t \in ApiTargets, a \in DamageAmounts :
        Called("take_damage", t, "None", a, TRUE, take_damage(chars, t, a))

ApiHeal ==
    \E t \in ApiTargets, a \in HealAmounts : Called("heal", t, "None", a, TRUE, heal(chars, t, a))

ApiRestoreMp ==
    \E a \in MpAmounts :
      LET t == "Mage" IN
        Called("restore_mp", t, "None", a, TRUE, restore_mp(chars, t, a))

ApiSpendMp ==
    \E a \in MpAmounts :
      LET t == "Mage" IN
        LET r == spend_mp(chars, t, a) IN Called("spend_mp", t, "None", a, r.ok, r.cs)

ApiPowerStrike ==
    \E crit \in BOOLEAN :
        LET r == power_strike(chars, "Warrior", "Boss", crit)
        IN  Called("power_strike", "Warrior", "Boss", 0, r.ok, r.cs)

ApiFireball ==
    LET r == fireball(chars, "Mage", "Boss")
    IN  Called("fireball", "Mage", "Boss", 0, r.ok, r.cs)

ApiMassHeal ==
    LET r == mass_heal(chars, "Healer", sample_party)
    IN  Called("mass_heal", "Healer", "None", 0, r.ok, r.cs)

ApiApplyEffect ==
    \E t \in ApiTargets, e \in EffectPalette :
        Called("apply_effect", t, e.kind, e.amount, TRUE, apply_effect(chars, t, e))

\* Boss.cast_silence(target): apply_effect(SilenceEffect(self, duration=1))
ApiCastSilence ==
    \E t \in Heroes :
        Called("cast_silence", "Boss", t, 0, TRUE, cast_silence(chars, t))

\* hero.use_skill(target, allies): the target may be None, the boss or, for the
\* healer, the mage; allies is the party or None
ApiUseSkill ==
    \E self \in Heroes, target \in {"None", "Boss", "Mage"}, allies \in {<<>>, sample_party},
       crit \in BOOLEAN, jitter \in Jitters :
        /\ target = "Mage" => self = "Healer"
        /\ allies = <<>> => self = "Healer"
        /\ Called("use_skill", self, target, Len(allies), TRUE,
                  use_skill(chars, self, target, allies, crit, jitter))

ApiStartTurnEffects ==
    \E t \in Chars :
        Called("start_turn_effects", t, "None", 0, TRUE, start_turn_effects(chars, t))

ApiTickCooldowns ==
    Called("tick_cooldowns", "None", "None", 0, TRUE,
           tick_cooldowns(chars, combatants(sample_party)))

ApiBossUseSkill ==
    \E coin \in BOOLEAN, pick \in Heroes :
        Called("Boss.use_skill", "Boss", "None", 0, TRUE,
               Boss_use_skill(chars, sample_party, coin, pick))

NextApi ==
    \/ ApiTakeDamage
    \/ ApiHeal
    \/ ApiRestoreMp
    \/ ApiSpendMp
    \/ ApiPowerStrike
    \/ ApiFireball
    \/ ApiMassHeal
    \/ ApiApplyEffect
    \/ ApiCastSilence
    \/ ApiStartTurnEffects
    \/ ApiTickCooldowns
    \/ ApiBossUseSkill

SpecApi == InitApi /\ [][NextApi]_vars

\* hero.inventory.add(item, 1), as make_sample_party calls it, of any item
ApiInventoryAdd ==
    \E owner \in Heroes, name \in DOMAIN Items :
        /\ pc = "api"
        /\ calls < MaxCalls
        /\ (IF name \in DOMAIN inv[owner] THEN inv[owner][name] ELSE 0) < MaxCount
        /\ calls' = calls + 1
        /\ inv' = [inv EXCEPT ![owner] = Inventory_add(inv[owner], name, 1)]
        /\ last' = [op |-> "Inventory.add", self |-> owner, target |-> "None", amount |-> 1,
                    ok |-> TRUE, name |-> name]
        /\ UNCHANGED <<chars, party, max_rounds, round, pc, order, actor, boss_hp_before, ret,
                       turns, log, dumped>>

\* hero.inventory.use(name, target), on the owner or on the mage
ApiInventoryUse ==
    \E owner \in Heroes, name \in DOMAIN Items : \E target \in {owner, "Mage"} :
        LET used == Inventory_use(chars, inv[owner], name, target)
        IN  /\ pc = "api"
            /\ calls < MaxCalls
            /\ calls' = calls + 1
            /\ chars' = used.cs
            /\ inv' = [inv EXCEPT ![owner] = used.items]
            /\ last' = [op |-> "Inventory.use", self |-> owner, target |-> target, amount |-> 0,
                        ok |-> used.ok, name |-> name]
            /\ UNCHANGED <<party, max_rounds, round, pc, order, actor, boss_hp_before, ret,
                           turns, log, dumped>>

\* the calls a player's menu makes on a hero, with what sets up their cases
NextHero ==
    \/ ApiUseSkill
    \/ ApiCastSilence
    \/ ApiTakeDamage

SpecHero == InitApi /\ [][NextHero]_vars

\* the calls on a hero's inventory, with the damage that makes room to restore
NextItems ==
    \/ ApiInventoryAdd
    \/ ApiInventoryUse
    \/ ApiTakeDamage
    \/ ApiSpendMp

SpecItems == InitApi /\ [][NextItems]_vars

\* the values assigned to a stat of c: those of the tests (-50, 0, 10), a
\* value inside the range and the first value above the maximum
AssignedValues(c, maximum) == {-500, 0, 100, maximum[c] - 300, maximum[c] + 10}

\* character.hp = v, through the descriptor
ApiSetHp ==
    \E c \in Chars : \E v \in AssignedValues(c, max_hp) :
        Called("hp=", c, "None", v, TRUE, [chars EXCEPT ![c].hp = BoundedStat_set(v)])

\* character.mp = v, through the descriptor
ApiSetMp ==
    \E c \in Chars : \E v \in AssignedValues(c, max_mp) :
        Called("mp=", c, "None", v, TRUE, [chars EXCEPT ![c].mp = BoundedStat_set(v)])

\* assignments to the bounded stats, and the heal that follows one in the tests
NextStats ==
    \/ ApiSetHp
    \/ ApiSetMp
    \/ ApiHeal

SpecStats == InitApi /\ [][NextStats]_vars

-----------------------------------------------------------------------------
(* Properties *)

Living(cs, p) == {h \in Range(p) : cs[h].hp > 0}

\* a direct call of op was just made
JustCalled(op) == calls' = calls + 1 /\ last'.op = op

HpMpInRange ==
    \A c \in Chars : /\ 0 <= chars[c].hp /\ chars[c].hp <= max_hp[c]
                     /\ 0 <= chars[c].mp /\ chars[c].mp <= max_mp[c]

\* the heals of a hero's action: a potion (heal(50)) on the hero itself, and a
\* successful mass_heal (the Healer pays 25 mp) healing every living ally by 40
HealsAreCapped ==
    (pc = "menu" /\ pc' = "retaliate") =>
        /\ ("potion" \in DOMAIN inv[actor] /\ "potion" \notin DOMAIN inv'[actor])
              => chars'[actor].hp = Min(max_hp[actor], chars[actor].hp + 500)
        /\ (actor = "Healer" /\ chars'[actor].mp = chars[actor].mp - 250)
              => \A a \in Range(party) :
                    chars'[a].hp = IF chars[a].hp > 0
                                   THEN Min(max_hp[a], chars[a].hp + 400)
                                   ELSE chars[a].hp

\* C1: in every state of a battle every character has 0 <= hp <= max_hp and
\* 0 <= mp <= max_mp, and a heal by amount sets hp to min(max_hp, hp + amount).
C1_HpMpBounded == []HpMpInRange /\ [][HealsAreCapped]_vars

\* the Warrior, first to act in round 1, drank its potion at full hp: the heal was capped
C1_Witness ==
    /\ pc = "retaliate" /\ round = 1 /\ turns = <<"Warrior">>
    /\ "potion" \notin DOMAIN inv["Warrior"]
    /\ chars["Warrior"].hp = max_hp["Warrior"]

\* C2: take_damage(A) on shield S absorbs min(S, A), leaves shield S - min(S, A)
\* and takes max(0, A - S) from hp, floored at 0; with S = 0 and A > 0 a living
\* target's hp strictly decreases.
C2_ShieldThenHp ==
    [][JustCalled("take_damage") =>
        LET t == last'.self
            A == last'.amount
            S == chars[t].shield
        IN  /\ chars'[t].shield = S - Min(S, A)
            /\ chars'[t].hp = Max(0, chars[t].hp - Max(0, A - S))
            /\ (S = 0 /\ A > 0 /\ chars[t].hp > 0) => chars'[t].hp < chars[t].hp
            /\ chars'[t].mp = chars[t].mp /\ chars'[t].effects = chars[t].effects
            /\ \A c \in Chars \ {t} : chars'[c] = chars[c]]_vars

\* 57.2 damage met the boss's own shield of 49: 49 absorbed, 8.2 taken from hp
C2_Witness ==
    /\ last.op = "take_damage" /\ last.self = "Boss" /\ last.amount = 572
    /\ chars["Boss"].effects = <<ShieldEffect(490, 2)>>
    /\ chars["Boss"].shield = 0
    /\ chars["Boss"].hp = 6000 - 82

SkillOps == {"power_strike", "fireball", "mass_heal"}

\* a signature skill was just called directly
SkillCalled == calls' = calls + 1 /\ last'.op \in SkillOps

\* C3: a signature skill called while its cooldown counter is > 0 fails, leaves
\* the caster's mp and every cooldown unchanged and touches no target.
C3_CooldownBlocks ==
    [][(SkillCalled /\ chars[last'.self].cooldowns[last'.op] > 0) =>
        (~last'.ok /\ chars' = chars)]_vars

\* fireball failed on its cooldown alone: not silenced, mana for it at hand
C3_Witness ==
    /\ last.op = "fireball" /\ ~last.ok
    /\ chars["Mage"].cooldowns["fireball"] > 0
    /\ chars["Mage"].mp >= 200
    /\ \A i \in DOMAIN chars["Mage"].effects : chars["Mage"].effects[i].kind # "Silence"

HasSilence(c) == \E i \in DOMAIN chars[c].effects : chars[c].effects[i].kind = "Silence"

\* C4: a signature skill of a character with a SilenceEffect among its effects
\* fails whatever its cooldown and mp, pays no mana and sets no cooldown.
C4_SilenceBlocks ==
    [][(SkillCalled /\ HasSilence(last'.self)) =>
        (~last'.ok /\ chars' = chars)]_vars

\* a silenced Warrior, the silence behind another effect or alone, off cooldown
\* and with mana, was refused
C4_Witness ==
    /\ last.op = "power_strike" /\ ~last.ok
    /\ HasSilence("Warrior")
    /\ chars["Warrior"].cooldowns["power_strike"] = 0
    /\ chars["Warrior"].mp >= 80

\* C5: spend_mp(cost) with mp < cost returns false and leaves mp unchanged, with
\* mp >= cost it deducts exactly cost; a signature skill called unsilenced and
\* off cooldown with mp < cost fails with mp unchanged and its cooldown still 0.
C5_ManaAtomic ==
    [][/\ JustCalled("spend_mp") =>
            LET t == last'.self
                a == last'.amount
            IN  IF chars[t].mp < a
                THEN ~last'.ok /\ chars' = chars
                ELSE /\ last'.ok
                     /\ chars' = [chars EXCEPT ![t].mp = chars[t].mp - a]
       /\ (SkillCalled /\ ~HasSilence(last'.self)
              /\ chars[last'.self].cooldowns[last'.op] = 0) =>
            IF chars[last'.self].mp < cost[last'.op]
            THEN ~last'.ok /\ chars' = chars
            ELSE chars'[last'.self].mp = chars[last'.self].mp - cost[last'.op]]_vars

\* the Healer, unsilenced and off cooldown, had 20 mp for a skill of 25: refused
C5_Witness ==
    /\ last.op = "mass_heal" /\ ~last.ok
    /\ ~HasSilence("Healer")
    /\ chars["Healer"].cooldowns["mass_heal"] = 0
    /\ chars["Healer"].mp = 200

\* what take_damage(amount) makes of the record c
Damaged(c, amount) ==
    [c EXCEPT !.shield = c.shield - Min(c.shield, amount),
              !.hp = Max(0, c.hp - Max(0, amount - c.shield))]

\* C6: a signature skill called unsilenced, off cooldown and with mp >= cost
\* succeeds, pays exactly its cost (8, 20, 25), sets its cooldown (2, 3, 3) and
\* applies its effect; fireball deals 66 through the shield and appends one
\* DotEffect of 16.5 for 2 rounds, and from mp 140 leaves mp 120, cooldown 3.
C6_SkillSucceeds ==
    [][(SkillCalled /\ ~HasSilence(last'.self)
           /\ chars[last'.self].cooldowns[last'.op] = 0
           /\ chars[last'.self].mp >= cost[last'.op]) =>
        LET self == last'.self
            paid == [chars[self] EXCEPT
                        !.mp = chars[self].mp - (CASE last'.op = "power_strike" -> 80
                                                   [] last'.op = "fireball" -> 200
                                                   [] last'.op = "mass_heal" -> 250),
                        !.cooldowns = (last'.op :>
                                         (CASE last'.op = "power_strike" -> 2
                                            [] last'.op = "fireball" -> 3
                                            [] last'.op = "mass_heal" -> 3))]
        IN  /\ last'.ok
            /\ last'.op = "power_strike" =>
                  /\ chars'[self] = paid
                  /\ chars'["Boss"] \in {Damaged(chars["Boss"], 400), Damaged(chars["Boss"], 600)}
                  /\ \A c \in Chars \ {self, "Boss"} : chars'[c] = chars[c]
            /\ last'.op = "fireball" =>
                  /\ chars'[self] = paid
                  /\ chars'["Boss"] =
                        [Damaged(chars["Boss"], 660) EXCEPT
                            !.effects = Append(chars["Boss"].effects,
                                               [kind |-> "Dot", amount |-> 165, duration |-> 2])]
                  /\ \A c \in Chars \ {self, "Boss"} : chars'[c] = chars[c]
                  /\ chars[self].mp = 1400 => chars'[self].mp = 1200
            /\ last'.op = "mass_heal" =>
                  /\ chars'["Boss"] = chars["Boss"]
                  /\ \A c \in Heroes :
                        chars'[c] = [(IF c = self THEN paid ELSE chars[c]) EXCEPT
                                        !.hp = IF chars[c].hp > 0
                                               THEN Min(max_hp[c], chars[c].hp + 400)
                                               ELSE chars[c].hp]]_vars

\* fireball at mp 140 on a boss of 600 hp behind a shield of 49: 17 damage
\* over the shield, the DOT behind the ShieldEffect, mp 120, cooldown 3
C6_Witness ==
    /\ last.op = "fireball" /\ last.ok
    /\ chars["Mage"].mp = 1200 /\ chars["Mage"].cooldowns["fireball"] = 3
    /\ chars["Boss"].effects = <<ShieldEffect(490, 2), DotEffect(165, 2)>>
    /\ chars["Boss"].shield = 0
    /\ chars["Boss"].hp = 6000 - 170

IsSortedDesc(s) == \A i, j \in DOMAIN s : i < j => agility[s[i]] >= agility[s[j]]

NoDuplicates(s) == \A i, j \in DOMAIN s : i # j => s[i] # s[j]

\* within a round nobody is due twice, nobody who had a turn is due again, and
\* the rest of the sequence is still in non-increasing agility
TurnOrderInv ==
    /\ NoDuplicates(turns \o order)
    /\ IsSortedDesc(turns \o order)
    /\ Range(turns \o order) \subseteq Range(combatants(party))

\* the sequence built at round start, and the choice of every next actor
TurnOrderStep ==
    /\ (pc = "loop" /\ pc' = "next") =>
          /\ Range(order') = Living(chars, combatants(party))
          /\ Len(order') = Cardinality(Living(chars, combatants(party)))
          /\ IsSortedDesc(order')
          /\ turns' = <<>>
    /\ (pc = "next" /\ turns' # turns) =>
          \E k \in DOMAIN order :
              /\ \A j \in 1..(k - 1) : chars[order[j]].hp = 0
              /\ chars[order[k]].hp > 0
              /\ turns' = Append(turns, order[k])
              /\ actor' = order[k]
              /\ order' = SubSeq(order, k + 1, Len(order))
    /\ (pc = "next" /\ turns' = turns) =>
          /\ \A j \in DOMAIN order : chars[order[j]].hp = 0
          /\ pc' = "round_end"
    /\ (pc \notin {"loop", "next"}) => (turns' = turns /\ order' = order)

\* C7: the turn sequence of a round holds every combatant alive at round start
\* exactly once and no dead one, in non-increasing agility; nobody takes two
\* regular turns in a round, and who died before being reached takes none.
C7_TurnOrder == []TurnOrderInv /\ [][TurnOrderStep]_vars

\* round 1 of the full party is over, the boss had its turn, and a hero that
\* started the round alive died before its position and had no turn
C7_Witness ==
    /\ round = 1 /\ pc = "round_end" /\ Len(party) = 3
    /\ "Boss" \in Range(turns)
    /\ \E h \in Range(party) : chars[h].hp = 0 /\ h \notin Range(turns)
    /\ \E h \in Range(party) : chars[h].hp > 0

\* C8: Boss.phase is a function of the current hp / max_hp alone: above 0.66 it
\* is 1, in (0.33, 0.66] it is 2, at or below 0.33 it is 3 (max_hp 600: hp
\* above 396, in (198, 396], at most 198).
C8_PhaseOfRatio ==
    phase(chars) = (IF chars["Boss"].hp > 3960 THEN 1
                    ELSE IF chars["Boss"].hp > 1980 THEN 2 ELSE 3)

\* the boss took its turn at ratio exactly 0.66 and, being in phase 2, shielded itself
C8_Witness ==
    /\ chars["Boss"].hp = 3960 /\ actor = "Boss" /\ pc = "next"
    /\ chars["Boss"].effects = <<ShieldEffect(490, 2)>>
    /\ phase(chars) = 2

\* hero h was hit in the step: its shield or its hp went down
Hit(h) == chars'[h].hp < chars[h].hp \/ chars'[h].shield < chars[h].shield

\* the boss shielded itself in the step
SelfShielded ==
    /\ chars'["Boss"].shield = chars["Boss"].shield + 490
    /\ Len(chars'["Boss"].effects) = Len(chars["Boss"].effects) + 1
    /\ chars'["Boss"].effects[Len(chars'["Boss"].effects)]
          = [kind |-> "Shield", amount |-> 490, duration |-> 2]

\* the boss smashed exactly the hero h in the step
SmashedOnly(h) ==
    /\ chars'[h].hp = Max(0, chars[h].hp - Max(0, 572 - chars[h].shield))
    /\ chars'[h].shield = chars[h].shield - Min(chars[h].shield, 572)
    /\ \A g \in Heroes \ {h} : ~Hit(g)
    /\ chars'["Boss"].shield = chars["Boss"].shield
    /\ Len(chars'["Boss"].effects) = Len(chars["Boss"].effects)

\* the boss did nothing to anybody's hp or shield in the step
Waited ==
    /\ \A g \in Heroes : ~Hit(g)
    /\ chars'["Boss"].shield = chars["Boss"].shield
    /\ Len(chars'["Boss"].effects) = Len(chars["Boss"].effects)

\* C9: the boss's primary action follows the phase: in phase 1 and 3 a smash on
\* a living enemy of least hp; in phase 2 a self-shield if shield < 0.15 * max_hp
\* and else a smash on a living enemy of greatest strength; the smashed enemy
\* is alive, and the boss waits only when no enemy is alive.
C9_BossPrimaryAction ==
    [][JustCalled("Boss.use_skill") =>
        LET alive == Living(chars, sample_party)
            hp    == chars["Boss"].hp
        IN  IF hp <= 3960 /\ hp > 1980
            THEN IF chars["Boss"].shield < 900
                 THEN SelfShielded /\ \A g \in Heroes : ~Hit(g)
                 ELSE IF alive = {} THEN Waited
                 ELSE \E h \in alive :
                         /\ \A g \in alive : strength[h] >= strength[g]
                         /\ SmashedOnly(h)
            ELSE IF alive = {} THEN Waited
                 ELSE \E h \in alive :
                         /\ \A g \in alive : chars[h].hp <= chars[g].hp
                         /\ SmashedOnly(h)]_vars

\* in phase 2 with a shield of 100 the boss struck the strongest hero, the Warrior
C9_Witness ==
    /\ last.op = "Boss.use_skill"
    /\ chars["Boss"].hp = 2400 /\ chars["Boss"].shield = 1000
    /\ chars["Warrior"].hp = 1500 - 572
    /\ chars["Mage"].hp = 900 /\ chars["Healer"].hp = 1100

\* the heroes the step changed
Changed == {h \in Heroes : chars'[h] # chars[h]}

\* the retaliation step decides on the hp the boss had before the hero's action
RetaliationStep ==
    /\ (pc = "menu") => (boss_hp_before' = boss_hp_before /\ pc' \in {"retaliate", "done"})
    /\ (pc = "retaliate") =>
          IF boss_hp_before > chars["Boss"].hp /\ chars["Boss"].hp > 0
             /\ Living(chars, party) # {}
          THEN /\ \E h \in Living(chars, party) :
                     /\ Changed = {h}
                     /\ chars'[h] = [chars[h] EXCEPT !.hp = Max(0, chars[h].hp - 572)]
               /\ chars'["Boss"] = chars["Boss"]
          ELSE chars' = chars
    /\ (pc \notin {"retaliate", "boss"}) =>
          \A h \in Heroes : chars'[h].hp >= chars[h].hp
    /\ (pc = "boss") =>
          /\ pc' # "retaliate"
          /\ Cardinality({h \in Heroes : chars'[h].hp < chars[h].hp}) <= 1
          /\ Len(chars'["Boss"].effects) > Len(chars["Boss"].effects)
                => \A h \in Heroes : chars'[h].hp = chars[h].hp
    /\ (pc = "menu" /\ (inv' # inv \/ chars' = chars)) =>
          chars'["Boss"] = chars["Boss"]

\* boss_hp_before is the boss's hp when the hero is asked for its action
BeforeIsCurrent == (pc = "menu") => (boss_hp_before = chars["Boss"].hp)

\* C10: after a hero's action the boss smashes exactly one living hero if and
\* only if its hp is lower than before the action, it is alive and a hero is
\* alive; nothing else (DOT tick, self-shield, absorbed hit, item, unconfirmed
\* exit) is followed by a retaliation.
C10_Retaliation == []BeforeIsCurrent /\ [][RetaliationStep]_vars

\* the Warrior hit the boss first thing in round 1 and the Mage took the answer
C10_Witness ==
    /\ round = 1 /\ pc = "next" /\ turns = <<"Warrior">> /\ party = sample_party
    /\ boss_hp_before > chars["Boss"].hp
    /\ chars["Mage"].hp = 900 - 572
    /\ chars["Warrior"].hp = 1500 /\ chars["Healer"].hp = 1100

\* the last record of the round log
LastRecord == log[Len(log)]

\* what run reports when it has returned
OutcomeAtReturn ==
    pc = "done" =>
        /\ ret = "True" <=> (~is_alive(chars, "Boss") /\ any_alive(chars, party))
        /\ ret = "True" <=> LastRecord.kind = "party_wins"
        /\ ~any_alive(chars, party) => (ret = "False" /\ LastRecord.kind = "boss_wins")
        /\ (round > max_rounds /\ is_alive(chars, "Boss"))
               => (ret = "False" /\ LastRecord.kind = "boss_wins")

\* with every hero dead no combatant starts a turn, no round starts and
\* nobody's hp moves
NoTurnAfterWipe ==
    ~any_alive(chars, party) =>
        /\ turns' = turns
        /\ pc' \in {"round_end", "loop", "done"}
        /\ \A c \in Chars : chars'[c].hp = chars[c].hp

\* C11: run returns True exactly when it ends with the boss dead and a hero
\* alive; it reports a boss win when every hero is dead and when the round
\* counter passed max_rounds with the boss alive; once every hero is dead no
\* further turn is taken
C11_BattleOutcome == []OutcomeAtReturn /\ [][NoTurnAfterWipe]_vars

\* a party win with a fallen hero: the boss killed one, the others finished it
C11_Witness ==
    /\ pc = "done" /\ ret = "True"
    /\ \E h \in Range(party) : ~is_alive(chars, h)

\* a boss win on the round limit, everybody still standing
C11_WitnessRoundLimit ==
    /\ pc = "done" /\ LastRecord.kind = "boss_wins"
    /\ round > max_rounds /\ \A h \in Range(party) : is_alive(chars, h)

\* a boss win over a dead party
C11_WitnessWipe == pc = "done" /\ ~any_alive(chars, party)

\* C12: in no reachable state of a battle are the boss and every hero dead
\* together
C12_NotBothDead == ~(~is_alive(chars, "Boss") /\ ~any_alive(chars, party))

\* the boss is dead, a hero fell before it and another hero survived
C12_Witness ==
    /\ ~is_alive(chars, "Boss")
    /\ \E h \in Range(party) : ~is_alive(chars, h)
    /\ \E h \in Range(party) : is_alive(chars, h) /\ chars[h].hp < max_hp[h]

\* the boss died of a burn at the start of its own turn
C12_WitnessBurn == pc = "next" /\ actor = "Boss" /\ ~is_alive(chars, "Boss") /\ order = <<>>

\* run has returned through the confirmed exit
Exited == pc = "done" /\ \E i \in 1..Len(log) : log[i].kind = "exit"

\* every round-start record of round n has a later round-end record of round n
RoundsClosed(doc) ==
    \A i \in 1..Len(doc) :
        doc[i].kind = "round_start" =>
            \E j \in (i + 1)..Len(doc) : doc[j].kind = "round_end" /\ doc[j].n = doc[i].n

\* a record naming a winner
HasVictoryRecord(doc) ==
    \E i \in 1..Len(doc) : doc[i].kind \in {"boss_wins", "party_wins"}

\* the confirmed exit is the step from the menu to the return: it moves no
\* stat, effect or cooldown, starts no turn, names no winner and returns False
ExitStep ==
    (pc = "menu" /\ pc' = "done") =>
        /\ chars' = chars /\ inv' = inv /\ turns' = turns /\ round' = round
        /\ ret' = "False"
        /\ ~HasVictoryRecord(log')
        /\ dumped'.written /\ dumped'.doc = record(log, Message("exit", 0, "None"))

\* the part of C13 the code keeps: the confirmed exit ends the battle at once
\* with no winner, and what is persisted is the log up to the exit record
C13_ExitEndsBattle == [][ExitStep]_vars

\* C13: after a confirmed exit the persisted document equals the logger's
\* record sequence at the time run returns, with a matching round-end record
\* for every round-start record (stated as the claim states it)
C13_ExitPersistsFullLog ==
    Exited => /\ dumped.written
              /\ dumped.doc = log
              /\ RoundsClosed(dumped.doc)

\* run returned through the exit in the second round
C13_Witness == Exited /\ round = 2

\* the payload of one on_turn on a living owner
Payload(cs, t, e) ==
    IF ~is_alive(cs, t) THEN cs
    ELSE IF e.kind = "Dot" THEN take_damage(cs, t, e.amount)
    ELSE IF e.kind = "Regen" THEN heal(cs, t, e.amount)
    ELSE cs

RECURSIVE PayloadsInOrder(_, _, _)
\* one payload per effect of es, first attached first
PayloadsInOrder(cs, t, es) ==
    IF es = <<>> THEN cs ELSE PayloadsInOrder(Payload(cs, t, Head(es)), t, Tail(es))

RECURSIVE Ticked(_)
\* es after one tick of each effect: those on their last turn are gone, the
\* others have one turn less
Ticked(es) ==
    IF es = <<>> THEN <<>>
    ELSE (IF Head(es).duration > 1 THEN <<[Head(es) EXCEPT !.duration = @ - 1]>> ELSE <<>>)
         \o Ticked(Tail(es))

RECURSIVE ShieldAfterExpiry(_, _)
\* the shield after one expire of each effect of es on its last turn
ShieldAfterExpiry(sh, es) ==
    IF es = <<>> THEN sh
    ELSE ShieldAfterExpiry(IF Head(es).kind = "Shield" /\ Head(es).duration = 1
                           THEN Max(0, sh - Head(es).amount) ELSE sh, Tail(es))

\* attach: apply runs once and the effect joins the end of the active list
LifecycleAttach ==
    JustCalled("apply_effect") =>
        LET t == last'.self
            e == chars'[t].effects[Len(chars'[t].effects)]
        IN  /\ Len(chars'[t].effects) = Len(chars[t].effects) + 1
            /\ SubSeq(chars'[t].effects, 1, Len(chars[t].effects)) = chars[t].effects
            /\ e.kind = last'.target /\ e.amount = last'.amount /\ e.duration >= 1
            /\ chars'[t].shield = chars[t].shield + (IF e.kind = "Shield" THEN e.amount ELSE 0)
            /\ chars'[t].hp = chars[t].hp
            /\ \A c \in Chars \ {t} : chars'[c] = chars[c]

\* a start-of-turn resolution: every active effect of the owner ticks once, in
\* attachment order; those on their last turn expire once and leave the list
LifecycleTick ==
    JustCalled("start_turn_effects") =>
        LET t  == last'.self
            es == chars[t].effects
            p  == PayloadsInOrder(chars, t, es)
        IN  /\ chars'[t].effects = Ticked(es)
            /\ chars'[t].hp = p[t].hp
            /\ chars'[t].shield = ShieldAfterExpiry(p[t].shield, es)
            /\ \A c \in Chars \ {t} : chars'[c] = chars[c]

\* no other call ticks or removes an effect: the old list is a prefix of the new
LifecycleElse ==
    (calls' = calls + 1 /\ last'.op # "start_turn_effects") =>
        \A c \in Chars :
            /\ Len(chars'[c].effects) >= Len(chars[c].effects)
            /\ SubSeq(chars'[c].effects, 1, Len(chars[c].effects)) = chars[c].effects

\* between calls every effect of an active list has duration >= 1
ActiveEffectsLive ==
    \A c \in Chars : \A i \in 1..Len(chars[c].effects) : chars[c].effects[i].duration >= 1

\* C14: an effect of duration d >= 1 is applied once at attach, ticks once at
\* each of the owner's next d start-of-turn resolutions in attachment order,
\* expires once at the d-th and leaves the active list, never ticks again, and
\* between turns every active effect has duration >= 1
C14_EffectLifecycle ==
    []ActiveEffectsLive /\ [][LifecycleAttach /\ LifecycleTick /\ LifecycleElse]_vars

\* the burn of two turns has ticked twice on the mage and is gone
C14_Witness ==
    /\ calls = 3 /\ last.op = "start_turn_effects" /\ last.self = "Mage"
    /\ chars["Mage"].effects = <<>>
    /\ chars["Mage"].hp = max_hp["Mage"] - 2 * 165

\* regeneration attached before a burn ticked first, on a mage at full hp
C14_WitnessOrder ==
    /\ calls = 3 /\ last.op = "start_turn_effects" /\ last.self = "Mage"
    /\ chars["Mage"].effects = <<DotEffect(165, 1)>>
    /\ chars["Mage"].hp = max_hp["Mage"] - 165

RECURSIVE ShieldAmounts(_)
\* the sum of the amounts of the ShieldEffects of the list es
ShieldAmounts(es) ==
    IF es = <<>> THEN 0
    ELSE (IF Head(es).kind = "Shield" THEN Head(es).amount ELSE 0) + ShieldAmounts(Tail(es))

\* the buffer never exceeds what the active ShieldEffects gave, so it is 0 when
\* none is active
ShieldBounded ==
    \A c \in Chars : 0 <= chars[c].shield /\ chars[c].shield <= ShieldAmounts(chars[c].effects)

HasDot(c) == \E i \in 1..Len(chars[c].effects) : chars[c].effects[i].kind = "Dot"

\* what each call does to the buffer
ShieldStep ==
    /\ (JustCalled("apply_effect") /\ last'.target = "Shield") =>
           chars'[last'.self].shield = chars[last'.self].shield + last'.amount
    /\ JustCalled("take_damage") =>
           chars'[last'.self].shield
               = chars[last'.self].shield - Min(chars[last'.self].shield, last'.amount)
    /\ (JustCalled("start_turn_effects") /\ ~HasDot(last'.self)) =>
           chars'[last'.self].shield
               = ShieldAfterExpiry(chars[last'.self].shield, chars[last'.self].effects)
    /\ (calls' = calls + 1 /\ last'.op \notin {"apply_effect", "Boss.use_skill"}) =>
           \A c \in Chars : chars'[c].shield <= chars[c].shield
    /\ JustCalled("Boss.use_skill") =>
           /\ chars'["Boss"].shield \in {chars["Boss"].shield, chars["Boss"].shield + 490}
           /\ \A c \in Heroes : chars'[c].shield <= chars[c].shield

\* C15: a ShieldEffect of amount a raises the shield by a when applied and
\* lowers it by a, floored at 0, when it expires; damage only lowers it; always
\* 0 <= shield <= the sum of the amounts of the active ShieldEffects
C15_ShieldBuffer == []ShieldBounded /\ [][ShieldStep]_vars

\* damage took a part of the buffer of an active shield
C15_Witness ==
    \E c \in Chars : /\ chars[c].effects = <<ShieldEffect(1000, 1)>>
                     /\ chars[c].shield = 1000 - 572

\* a shield expired whose buffer damage had lowered below its amount
C15_WitnessFloor ==
    /\ calls = 3 /\ last.op = "start_turn_effects"
    /\ chars[last.self].effects = <<>> /\ chars[last.self].shield = 0
    /\ chars[last.self].hp = max_hp[last.self] /\ last.self = "Mage"

\* the signature skill of c would go through: no silence, off cooldown, mana
Ready(c) ==
    /\ ~HasSilence(c)
    /\ chars[c].cooldowns[skill[c]] = 0
    /\ chars[c].mp >= cost[skill[c]]

\* the damage a basic attack of c can deal: strength, times 1.5 on a critical
\* hit, times the jitter
BasicDamages(c) ==
    {(j * b) \div 100 : j \in Jitters, b \in {strength[c], (strength[c] * 150) \div 100}}

\* the step is one basic attack of self on target and nothing else
BasicAttackOnly(self, target) ==
    \E d \in BasicDamages(self) :
        chars' = [chars EXCEPT ![target] = Damaged(chars[target], d)]

\* the step is the signature skill of self on target and nothing else
SkillOnly(self, target) ==
    /\ chars'[self].mp = chars[self].mp - cost[skill[self]]
    /\ chars'[self].cooldowns[skill[self]] = cd[skill[self]]
    /\ IF self = "Warrior"
       THEN \E crit \in BOOLEAN : chars' = power_strike(chars, self, target, crit).cs
       ELSE chars' = fireball(chars, self, target).cs

\* use_skill of the warrior and the mage with a target
FallbackOfFighters ==
    (JustCalled("use_skill") /\ last'.self \in {"Warrior", "Mage"} /\ last'.target # "None") =>
        IF Ready(last'.self) THEN SkillOnly(last'.self, last'.target)
        ELSE BasicAttackOnly(last'.self, last'.target)

\* use_skill of the healer
FallbackOfHealer ==
    (JustCalled("use_skill") /\ last'.self = "Healer") =>
        LET t == last'.target IN
        IF Ready("Healer")
        THEN /\ chars'["Healer"].mp = chars["Healer"].mp - cost["mass_heal"]
             /\ chars'["Healer"].cooldowns["mass_heal"] = cd["mass_heal"]
             /\ \A c \in Chars : /\ chars'[c].hp >= chars[c].hp
                                 /\ chars'[c].shield = chars[c].shield
        ELSE IF t # "None" /\ is_alive(chars, t) THEN BasicAttackOnly("Healer", t)
        ELSE chars' = chars

\* C16: use_skill of the warrior and the mage with a target does exactly one
\* of the signature skill and a basic attack, the basic attack exactly when
\* the skill failed; a failed mass_heal is followed by a basic attack only on
\* a supplied living target, and a successful one damages nobody
C16_UseSkillFallback == [][FallbackOfFighters /\ FallbackOfHealer]_vars

\* a silenced warrior fell back on a basic attack against the boss
C16_Witness ==
    /\ last.op = "use_skill" /\ last.self = "Warrior" /\ last.target = "Boss"
    /\ HasSilence("Warrior")
    /\ chars["Warrior"].mp = max_mp["Warrior"]
    /\ chars["Boss"].hp < max_hp["Boss"] /\ chars["Boss"].hp \in {6000 - d : d \in BasicDamages("Warrior")}

\* the healer, out of mana, struck a living target
C16_WitnessHealer ==
    /\ last.op = "use_skill" /\ last.self = "Healer" /\ last.target = "Mage" /\ calls = 1
    /\ chars["Healer"].mp < cost["mass_heal"]
    /\ chars["Mage"].hp < max_hp["Mage"]

\* the healer, out of mana, was handed a dead target
C16_WitnessDeadTarget ==
    /\ last.op = "use_skill" /\ last.self = "Healer" /\ last.target = "Mage"
    /\ chars["Healer"].mp < cost["mass_heal"]
    /\ ~is_alive(chars, "Mage")

\* every counter is between 0 and the cooldown configured for its skill
CooldownsInRange ==
    \A c \in Chars : \A k \in DOMAIN chars[c].cooldowns :
        0 <= chars[c].cooldowns[k] /\ chars[c].cooldowns[k] <= cd[k]

\* the end of a completed round lowers every counter > 0 of every combatant,
\* dead ones too, by one; any other step leaves a counter alone or, from 0,
\* sets it to the configured cooldown
CooldownStep ==
    \A c \in Range(combatants(party)) : \A k \in DOMAIN chars[c].cooldowns :
        IF pc = "round_end"
        THEN /\ round' = round + 1
             /\ chars'[c].cooldowns[k]
                  = IF chars[c].cooldowns[k] > 0 THEN chars[c].cooldowns[k] - 1 ELSE 0
        ELSE \/ chars'[c].cooldowns[k] = chars[c].cooldowns[k] /\ round' = round
             \/ /\ chars[c].cooldowns[k] = 0 /\ chars'[c].cooldowns[k] = cd[k]
                /\ pc = "menu" /\ actor = c /\ round' = round

\* C17: the end of every completed round lowers each counter > 0 of every
\* combatant, alive or dead, by exactly 1 and leaves the counters at 0; every
\* counter stays between 0 and the configured cooldown; hence a skill of
\* cooldown k used in round r reads k - j in round r + j and is usable again
\* in round r + k
C17_Cooldowns == []CooldownsInRange /\ [][CooldownStep]_vars

\* the counter of a dead warrior was ticked at the end of the round
C17_Witness ==
    /\ pc = "loop" /\ round = 2 /\ "Warrior" \in Range(party)
    /\ ~is_alive(chars, "Warrior")
    /\ chars["Warrior"].cooldowns["power_strike"] = cd["power_strike"] - 1

\* the mage cast its one fireball in round 1 and has it back in round 1 + 3
C17_WitnessUsableAgain ==
    /\ party = <<"Mage">> /\ round = 4 /\ pc = "menu"
    /\ chars["Mage"].mp = max_mp["Mage"] - cost["fireball"]
    /\ chars["Mage"].cooldowns["fireball"] = 0

\* the rounds begun so far
RoundsBegun == Cardinality({i \in 1..Len(log) : log[i].kind = "round_start"})

\* at most max_rounds rounds are begun, the counter stays in 1..max_rounds + 1
\* and no combatant has two regular turns in a round
RoundsBounded ==
    /\ RoundsBegun <= max_rounds
    /\ 1 <= round /\ round <= max_rounds + 1
    /\ RoundsBegun = IF pc \in {"start", "loop"} \/ (pc = "done" /\ ~Exited) THEN round - 1
                     ELSE round
    /\ NoDuplicates(turns)
    /\ Len(turns) <= Len(party) + 1

\* the counter moves by exactly 1, at the end of a completed round and only then
RoundCounterStep ==
    IF pc = "round_end" THEN round' = round + 1 ELSE round' = round

\* what is left of the running round: four per combatant still due, and the
\* statements left of the turn under way
LeftOfRound ==
    CASE pc = "start" -> 20
      [] pc = "loop" -> 19
      [] pc = "next" -> 4 * Len(order) + 1
      [] pc = "retaliate" -> 4 * Len(order) + 2
      [] pc \in {"menu", "boss"} -> 4 * Len(order) + 3
      [] pc = "round_end" -> 0
      [] OTHER -> 0

\* a bound on the steps run has left: the rounds left, then the running round
Variant == IF pc = "done" THEN 0 ELSE (max_rounds + 1 - round) * 20 + LeftOfRound

\* every step of run lowers the variant, which is a natural number, so that
\* no run goes on for ever; and a run that has not returned has a next step
VariantStep == Variant' < Variant

\* C18: every query answered, run terminates; it runs at most max_rounds
\* rounds with at most one regular turn per combatant in each, and the round
\* counter starts at 1, grows by exactly 1 per completed round and never
\* exceeds max_rounds + 1
C18_Termination ==
    /\ round = 1
    /\ []RoundsBounded
    /\ [][RoundCounterStep /\ VariantStep]_vars
    /\ [](Variant >= 0)
    /\ <>(pc = "done")

\* run returned after max_rounds full rounds, each combatant having had its
\* turn in the last one
C18_Witness ==
    /\ pc = "done" /\ round = max_rounds + 1 /\ RoundsBegun = max_rounds
    /\ Len(turns) = Len(party) + 1

\* the count of name in the inventory of owner, 0 when it has no entry
CountOf(owner, name) == IF name \in DOMAIN inv[owner] THEN inv[owner][name] ELSE 0

\* every entry present has a count >= 1
EntriesPositive == \A c \in Chars : \A n \in DOMAIN inv[c] : inv[c][n] >= 1

\* Inventory.use: with a count c >= 1 the restore reaches the target, capped,
\* the count becomes c - 1 and the entry goes at 0; without, nothing changes
InventoryUseStep ==
    JustCalled("Inventory.use") =>
        LET o == last'.self
            n == last'.name
            t == last'.target
        IN  IF CountOf(o, n) >= 1
            THEN /\ last'.ok
                 /\ chars'[t].hp = Min(max_hp[t], chars[t].hp + Items[n].hp_restore)
                 /\ chars'[t].mp = Min(max_mp[t], chars[t].mp + Items[n].mp_restore)
                 /\ \A c \in Chars \ {t} : chars'[c] = chars[c]
                 /\ IF CountOf(o, n) = 1 THEN n \notin DOMAIN inv'[o]
                    ELSE n \in DOMAIN inv'[o] /\ inv'[o][n] = CountOf(o, n) - 1
                 /\ \A c \in Chars, m \in DOMAIN Items :
                        (c # o \/ m # n) =>
                            /\ (m \in DOMAIN inv'[c]) = (m \in DOMAIN inv[c])
                            /\ m \in DOMAIN inv[c] => inv'[c][m] = inv[c][m]
            ELSE ~last'.ok /\ chars' = chars /\ inv' = inv

\* C19: Inventory.use(name, target) with a count c >= 1 applies the item's
\* restore to the target, capped at max_hp and max_mp, leaves the count c - 1,
\* removes the entry at 0 and returns true; otherwise it returns false and
\* changes nothing; every entry present has a count >= 1
C19_InventoryUse == []EntriesPositive /\ [][InventoryUseStep]_vars

\* the mage drank its only potion after a hit: 50 hp back, the entry gone
C19_Witness ==
    /\ last.op = "Inventory.use" /\ last.self = "Mage" /\ last.target = "Mage" /\ last.ok
    /\ "potion" \notin DOMAIN inv["Mage"]
    /\ chars["Mage"].hp = max_hp["Mage"] - 572 + 500

\* one of two pieces was used
C19_WitnessCountDown ==
    /\ last.op = "Inventory.use" /\ last.ok
    /\ last.name \in DOMAIN inv[last.self] /\ inv[last.self][last.name] = 1

\* an item the owner does not hold was asked for
C19_WitnessMissing == last.op = "Inventory.use" /\ ~last.ok /\ calls = 3

\* the restore was capped at the maximum
C19_WitnessCapped ==
    /\ last.op = "Inventory.use" /\ last.ok /\ last.name = "potion" /\ last.target = "Mage"
    /\ chars["Mage"].hp = max_hp["Mage"] /\ calls = 2

\* v clamped into [lo, hi]
Clamp(v, lo, hi) == Max(lo, Min(hi, v))

\* what the descriptor does store: v raised to the minimum 0, and no more
StoredIsFloored ==
    /\ JustCalled("hp=") => chars'[last'.self].hp = Max(0, last'.amount)
    /\ JustCalled("mp=") => chars'[last'.self].mp = Max(0, last'.amount)

\* the part of C20 the code keeps: no assignment stores a value below 0
C20_StoredAtLeastMin == [][StoredIsFloored]_vars

\* C20: the value stored by an assignment of v to hp is v clamped into
\* [0, max_hp], and to mp v clamped into [0, max_mp] (stated as the claim
\* states it)
C20_StoredIsClamped ==
    /\ last.op = "hp=" => chars[last.self].hp = Clamp(last.amount, 0, max_hp[last.self])
    /\ last.op = "mp=" => chars[last.self].mp = Clamp(last.amount, 0, max_mp[last.self])

\* max_hp + 1 was assigned to the hp of a character
C20_Witness ==
    /\ last.op = "hp=" /\ last.amount = max_hp[last.self] + 10
    /\ chars[last.self].hp > max_hp[last.self]

\* -50 was assigned to the hp of a character
C20_WitnessNegative == last.op = "hp=" /\ last.amount = -500 /\ chars[last.self].hp = 0

\* every silence on a hero is the boss's, of duration 1
SilencesAreShort ==
    \A h \in Heroes : \A i \in DOMAIN chars[h].effects :
        chars[h].effects[i].kind = "Silence" => chars[h].effects[i].duration = 1

\* the hero whose action is being resolved carries no silence
ActingHeroUnsilenced == pc \in {"menu", "retaliate"} => ~HasSilence(actor)

\* the hero's own start-of-turn resolution removes its silence before it acts
SilenceGoneAtTurnStart ==
    (pc = "next" /\ pc' = "menu") => ~HasSilence(actor)'

\* a skill chosen in the menu goes through whenever it is off cooldown and
\* paid for: silence never stands in its way
SkillNeverSilenced ==
    (pc = "menu" /\ pc' = "retaliate") => ~is_silenced(chars, actor)

\* C21: in a battle the hero whose action (attack, skill or item) is resolved
\* has no SilenceEffect: every silence cast has duration 1 and the hero's own
\* start-of-turn resolution ticks it to 0 and removes it before the hero acts
C21_NoSilencedAction ==
    /\ [](SilencesAreShort /\ ActingHeroUnsilenced)
    /\ [][SilenceGoneAtTurnStart /\ SkillNeverSilenced]_vars

\* a hero silenced by the boss in the round before is the next to act
C21_Witness ==
    /\ pc = "next" /\ drop_dead(chars, order) # <<>>
    /\ Head(drop_dead(chars, order)) \in Heroes
    /\ HasSilence(Head(drop_dead(chars, order)))

\* when the boss decides, its shield is at most one self-shield, below the
\* 0.15 * max_hp = 90 of the defensive strategy
ShieldLowAtDecision ==
    pc = "boss" => /\ chars["Boss"].shield <= 490
                   /\ chars["Boss"].shield * 100 < max_hp["Boss"] * 15

\* a boss turn taken in phase 2 is a self-shield and strikes nobody
Phase2TurnShields ==
    (pc = "boss" /\ phase(chars) = 2) =>
        /\ SelfShielded
        /\ \A h \in Heroes : chars'[h] = chars[h]

\* C22: whenever the boss decides its action on its own turn in a battle its
\* shield is at most 49 < 90 = 0.15 * max_hp, so every boss turn taken in
\* phase 2 is a self-shield and the phase-2 strike on the strongest hero is
\* never taken
C22_Phase2AlwaysShields == []ShieldLowAtDecision /\ [][Phase2TurnShields]_vars

\* the boss decides in phase 2 with a whole self-shield of its last turn left
C22_Witness ==
    /\ pc = "boss" /\ phase(chars) = 2
    /\ chars["Boss"].shield = 490
    /\ chars["Boss"].effects = <<ShieldEffect(490, 1)>>

\* after its decision the boss holds two self-shields at once
C22_WitnessStacked == chars["Boss"].shield = 980

\* a character at hp 0 stays at hp 0, the boss's hp does not grow and its
\* phase does not go back
DeathIsFinal ==
    /\ \A c \in Chars : chars[c].hp = 0 => chars'[c].hp = 0
    /\ chars'["Boss"].hp <= chars["Boss"].hp
    /\ phase(chars') >= phase(chars)

\* C23: during a battle a character whose hp reached 0 stays at 0 in every
\* later state, the boss's hp is non-increasing and the boss's phase never
\* decreases
C23_DeathIsPermanent == [][DeathIsFinal]_vars

\* the healer's mass_heal went through beside a dead ally
C23_Witness ==
    /\ pc = "retaliate" /\ actor = "Healer"
    /\ chars["Healer"].cooldowns["mass_heal"] = cd["mass_heal"]
    /\ \E h \in Range(party) : ~is_alive(chars, h)

\* the boss is alive in a later phase than the one the first round announced
C23_WitnessPhases ==
    /\ Len(log) >= 3 /\ log[3].kind = "round"
    /\ is_alive(chars, "Boss") /\ phase(chars) > log[3].who

====
